---- MODULE Spec2Model ----
(***************************************************************************)
(* Block Kit renderer of the story-thread frontend                          *)
(* (frontend/app/components/blocks): the dispatcher BlockRenderer, the      *)
(* per-block renderers and the action callback they invoke on a click;     *)
(* the message list of ChatInterface; and the requests of ResultsPanel     *)
(* and TrendsDemo.                                                         *)
(*                                                                          *)
(* The text of a TextObject is a sequence of one-character strings; other   *)
(* strings (identifiers, titles) are strings.  An optional field of a       *)
(* TypeScript object is a record field that is in the record's DOMAIN or    *)
(* not.  A renderer returns the view it builds together with the state of   *)
(* the object it was handed after the call (input) and whether it threw.    *)
(***************************************************************************)
EXTENDS Integers, Sequences, FiniteSets, TLC

VARIABLES
    given,      \* the `blocks` value last handed to BlockRenderer
    blocks,     \* the block objects held by the parent, as they are now
    onAction,   \* TRUE iff the onAction prop is set
    view,       \* the rendered children of the container, in order
    threw,      \* TRUE iff a render or a click handler raised an error
    clicks,     \* history: the buttons clicked, in order
    calls,      \* the invocations the onAction callback received, in order
    memo,       \* history: the props and the view of an earlier render
    segs,       \* history: the pieces a Section text was put together from
    messages,   \* ChatInterface: the ChatMessage list
    isLoading,  \* ChatInterface: an analysis is under way
    isLoadingTrends,  \* ChatInterface: a fetch of the trends is under way
    analyses,   \* the handleSendMessage calls waiting for their analysis
    fetches,    \* the number of fetchTrendMessages calls waiting for a response
    lastTrendUpdate,  \* ChatInterface: generated_at of the trends on show, or null
    answered,   \* history: how the last request for the suggestions to end was answered
    resultsPanel,     \* ResultsPanel: its state and its fetchMessages calls
    trendsDemo        \* TrendsDemo: its state and its calls

rendererVars == <<given, blocks, onAction, view, threw, clicks, calls, memo, segs>>
chatVars == <<messages, isLoading, isLoadingTrends, analyses, fetches, lastTrendUpdate,
              answered>>
panelVars == <<resultsPanel, trendsDemo>>
vars == <<given, blocks, onAction, view, threw, clicks, calls, memo, segs,
          messages, isLoading, isLoadingTrends, analyses, fetches, lastTrendUpdate,
          answered, resultsPanel, trendsDemo>>

----------------------------------------------------------------------------
(* Strings and the inline emphasis substitution of SectionBlock.renderText *)

\* JavaScript's `.` matches any character except a line terminator
LineTerminators == {"\n", "\r"}

Has(r, f) == f \in DOMAIN r

\* The grave accent character (a string literal cannot hold it)
Backtick == "U+0060"

RECURSIVE Concat(_)
Concat(ss) == IF ss = <<>> THEN <<>> ELSE Head(ss) \o Concat(Tail(ss))

\* Variant: a greedy (.+), which runs to the last d of the line
LazyMatchEnd_Greedy(s, p, d) ==
    LET ends == {q \in (p + 2)..Len(s) :
                    /\ s[q] = d
                    /\ \A k \in (p + 1)..(q - 1) : s[k] \notin LineTerminators}
    IN  IF ends = {} THEN 0 ELSE CHOOSE q \in ends : \A r \in ends : q >= r

\* End of the match of /d(.+?)d/ that starts at p (s[p] = d): the least q
\* with s[q] = d, at least one character between p and q, none of them a
\* line terminator; 0 when there is no match at p.
LazyMatchEnd(s, p, d) ==
    LET ends == {q \in (p + 2)..Len(s) :
                    /\ s[q] = d
                    /\ \A k \in (p + 1)..(q - 1) : s[k] \notin LineTerminators}
    IN  IF ends = {} THEN 0 ELSE CHOOSE q \in ends : \A r \in ends : q <= r

\* s.replace(/d(.+?)d/g, open + '$1' + close), scanning from position i;
\* q is the end of the match that starts at i, or 0
RECURSIVE ReplaceDelimited(_, _, _, _, _)
\* Variant: a delimiter that starts no match is dropped from the output
ReplaceMatch_DropsUnmatched(s, i, d, open, close, q) ==
    IF q # 0
    THEN <<open>> \o SubSeq(s, i + 1, q - 1) \o <<close>>
            \o ReplaceDelimited(s, q + 1, d, open, close)
    ELSE (IF s[i] = d THEN <<>> ELSE <<s[i]>>)
            \o ReplaceDelimited(s, i + 1, d, open, close)

ReplaceMatch(s, i, d, open, close, q) ==
    IF q # 0
    THEN <<open>> \o SubSeq(s, i + 1, q - 1) \o <<close>>
            \o ReplaceDelimited(s, q + 1, d, open, close)
    ELSE <<s[i]>> \o ReplaceDelimited(s, i + 1, d, open, close)

ReplaceDelimited(s, i, d, open, close) ==
    IF i > Len(s) THEN <<>>
    ELSE ReplaceMatch(s, i, d, open, close,
                      IF s[i] = d THEN LazyMatchEnd(s, i, d) ELSE 0)

QuoteMarker == <<"&", "g", "t", ";", " ">>

\* /&gt; (.+)/ matches at p: the literal "&gt; " and at least one character
\* that is no line terminator
QuoteMatchesAt(s, p) ==
    /\ p + Len(QuoteMarker) <= Len(s)
    /\ SubSeq(s, p, p + Len(QuoteMarker) - 1) = QuoteMarker
    /\ s[p + Len(QuoteMarker)] \notin LineTerminators

\* (.+) is greedy: it runs to the last character before the next line
\* terminator or the end of the string
RECURSIVE GreedyEnd(_, _)
GreedyEnd(s, q) ==
    IF q + 1 <= Len(s) /\ s[q + 1] \notin LineTerminators
    THEN GreedyEnd(s, q + 1) ELSE q

\* s.replace(/&gt; (.+)/g, open + '$1' + close), scanning from position i
RECURSIVE ReplaceQuote(_, _, _, _)
ReplaceQuoteMatch(s, i, open, close, q) ==
    <<open>> \o SubSeq(s, i + Len(QuoteMarker), q) \o <<close>>
        \o ReplaceQuote(s, q + 1, open, close)

ReplaceQuote(s, i, open, close) ==
    IF i > Len(s) THEN <<>>
    ELSE IF QuoteMatchesAt(s, i)
         THEN ReplaceQuoteMatch(s, i, open, close,
                                GreedyEnd(s, i + Len(QuoteMarker)))
         ELSE <<s[i]>> \o ReplaceQuote(s, i + 1, open, close)

\* The markup the replacements insert; each is one token of the html.
StrongOpen  == "<strong>"
StrongClose == "</strong>"
EmOpen      == "<em>"
EmClose     == "</em>"
CodeOpen    == "<code class=\"bg-muted px-1 rounded\">"
CodeClose   == "</code>"
QuoteOpen   == "<blockquote class=\"border-l-4 border-border pl-3 my-2 text-muted-foreground\">"
QuoteClose  == "</blockquote>"
ContextStrongOpen == "<strong class=\"text-foreground\">"

Tags == {StrongOpen, StrongClose, EmOpen, EmClose, CodeOpen, CodeClose,
         QuoteOpen, QuoteClose, ContextStrongOpen}

\* What the browser shows of an html token sequence: everything but markup
VisibleText(html) == SelectSeq(html, LAMBDA c : c \notin Tags)

\* The chain of four replace calls that builds __html
ReplaceBold(s)   == ReplaceDelimited(s, 1, "*", StrongOpen, StrongClose)
ReplaceItalic(s) == ReplaceDelimited(s, 1, "_", EmOpen, EmClose)
ReplaceCode(s)   == ReplaceDelimited(s, 1, Backtick, CodeOpen, CodeClose)
ReplaceBlockquote(s) == ReplaceQuote(s, 1, QuoteOpen, QuoteClose)

EmphasisHtml(s) == ReplaceBlockquote(ReplaceCode(ReplaceItalic(ReplaceBold(s))))

\* renderText of SectionBlockRenderer: the element a TextObject becomes and
\* the TextObject after the call (replace returns a new string and text.text
\* is not assigned).
\* Variant: every TextObject goes through the substitution
renderText_IgnoresKind(text) ==
    [input |-> text, view |-> [el |-> "div", html |-> EmphasisHtml(text.text)]]

renderText(text) ==
    IF text.type = "mrkdwn"
    THEN [input |-> text, view |-> [el |-> "div", html |-> EmphasisHtml(text.text)]]
    ELSE [input |-> text, view |-> [el |-> "p", chars |-> text.text]]

----------------------------------------------------------------------------
(* The per-block renderers.  Each returns                                  *)
(*   input: the block object after the call,                               *)
(*   view : the element it renders,                                        *)
(*   threw: TRUE iff the call raised an error (view is then unused).       *)

NoView == [el |-> "none"]

Rendered(block, v) == [input |-> block, view |-> v, threw |-> FALSE]
Thrown(block) == [input |-> block, view |-> NoView, threw |-> TRUE]

\* Variant: a style that is neither 'primary' nor 'danger' is shown as primary
ButtonStyle_PrimaryByDefault(element) ==
    IF Has(element, "style") /\ element.style = "danger" THEN "danger"
    ELSE IF Has(element, "style") THEN "primary"
    ELSE "secondary"

\* The class chosen by the `style` conditional of a button: the branch
\* "primary" stands for the bg-primary classes, "danger" for the
\* bg-destructive classes and "secondary" for the bg-secondary classes
ButtonStyle(element) ==
    IF Has(element, "style") /\ element.style = "primary" THEN "primary"
    ELSE IF Has(element, "style") /\ element.style = "danger" THEN "danger"
    ELSE "secondary"

\* {element.text.text} inside a <button>: throws when text is undefined
\* onAction is the callback the button's onClick closure captured.
ButtonView(element, cb) ==
    [label |-> element.text.text, style |-> ButtonStyle(element), onAction |-> cb]

HeaderBlockRenderer(block) ==
    IF ~Has(block, "text") THEN Thrown(block)     \* block.text.text of undefined
    ELSE Rendered(block, [el |-> "header", heading |-> block.text.text])

DividerBlockRenderer == [el |-> "divider"]

\* The texts of a section, each through renderText: block.text (if any)
\* first, then the fields
SectionTexts(block) ==
    (IF Has(block, "text") THEN <<block.text>> ELSE <<>>)
        \o (IF Has(block, "fields") THEN block.fields ELSE <<>>)

\* texts: the renderText results of SectionTexts(block), n of them for
\* block.text (0 or 1)
SectionView(block, cb, texts, n) ==
    LET hasButton == Has(block, "accessory") /\ block.accessory.type = "button"
        after == [f \in DOMAIN block |->
                    IF f = "text" THEN texts[1].input
                    ELSE IF f = "fields"
                         THEN [i \in 1..(Len(texts) - n) |-> texts[n + i].input]
                         ELSE block[f]]
    IN  IF hasButton /\ ~Has(block.accessory, "text") THEN Thrown(block)
        ELSE Rendered(after,
                [el      |-> "section",
                 body    |-> [i \in 1..n |-> texts[i].view],
                 grid    |-> Has(block, "fields"),
                 fields  |-> [i \in 1..(Len(texts) - n) |-> texts[n + i].view],
                 buttons |-> IF hasButton THEN <<ButtonView(block.accessory, cb)>>
                             ELSE <<>>])

MapRenderText(ts) == [i \in 1..Len(ts) |-> renderText(ts[i])]

SectionBlockRenderer(block, cb) ==
    SectionView(block, cb, MapRenderText(SectionTexts(block)),
                IF Has(block, "text") THEN 1 ELSE 0)

\* renderElement of ContextBlockRenderer; <<>> stands for null
renderElement(element) ==
    IF element.type = "mrkdwn"
    THEN <<[el |-> "span",
            html |-> ReplaceDelimited(element.text, 1, "*",
                                      ContextStrongOpen, StrongClose)]>>
    ELSE IF element.type = "plain_text"
         THEN <<[el |-> "span", chars |-> element.text]>>
         ELSE IF element.type = "image"
              THEN <<[el |-> "img", src |-> element.image_url,
                      alt |-> element.alt_text]>>
              ELSE <<>>

ContextBlockRenderer(block) ==
    IF ~Has(block, "elements") THEN Thrown(block)
    ELSE Rendered(block,
            [el |-> "context",
             children |-> Concat([i \in 1..Len(block.elements) |->
                                     renderElement(block.elements[i])])])

ActionsBlockRenderer(block, cb) ==
    IF \/ ~Has(block, "elements")
       \/ \E i \in 1..Len(block.elements) : ~Has(block.elements[i], "text")
    THEN Thrown(block)
    ELSE Rendered(block,
            [el |-> "actions",
             buttons |-> [i \in 1..Len(block.elements) |->
                             ButtonView(block.elements[i], cb)]])

\* The comparator (a, b) => a.year - b.year
compareYear(a, b) == a.year - b.year

\* Array.prototype.sort with that comparator: a stable sort (ECMAScript
\* 2019), computed here by insertion: e goes before the first element that
\* compares greater than it.
\* Variant: an unstable sort, e goes before the elements that compare equal
RECURSIVE InsertEvent_Unstable(_, _)
InsertEvent_Unstable(sorted, e) ==
    IF sorted = <<>> THEN <<e>>
    ELSE IF compareYear(Head(sorted), e) >= 0 THEN <<e>> \o sorted
         ELSE <<Head(sorted)>> \o InsertEvent_Unstable(Tail(sorted), e)

RECURSIVE InsertEvent(_, _)
InsertEvent(sorted, e) ==
    IF sorted = <<>> THEN <<e>>
    ELSE IF compareYear(Head(sorted), e) > 0 THEN <<e>> \o sorted
         ELSE <<Head(sorted)>> \o InsertEvent(Tail(sorted), e)

RECURSIVE ArraySort(_)
ArraySort(arr) ==
    IF arr = <<>> THEN <<>>
    ELSE InsertEvent(ArraySort(SubSeq(arr, 1, Len(arr) - 1)), arr[Len(arr)])

\* const sortedEvents = [...block.events].sort(...): the spread copies the
\* array, sort works in place on the copy.  events is block.events after
\* the statement, sorted is the value of sortedEvents.
\* Variant: newest first by block.events.reverse(), which works in place
sortedEvents_ReverseInPlace(block) ==
    [events |-> [i \in 1..Len(block.events) |->
                    block.events[Len(block.events) + 1 - i]],
     sorted |-> [i \in 1..Len(block.events) |->
                    block.events[Len(block.events) + 1 - i]]]

\* Variant: block.events.sort(...) without the copy
sortedEvents_InPlace(block) ==
    [events |-> ArraySort(block.events), sorted |-> ArraySort(block.events)]

sortedEvents(block) == [events |-> block.events, sorted |-> ArraySort(block.events)]

\* Variant: the connector is drawn after every event, the last one too
TimelineView_TrailingConnector(block, r) ==
    Rendered([block EXCEPT !.events = r.events],
        [el |-> "timeline",
         items |-> [i \in 1..Len(r.sorted) |->
                      [year      |-> r.sorted[i].year,
                       title     |-> r.sorted[i].title,
                       connector |-> TRUE]]])

\* r: the result of sortedEvents(block).  An item is the marker of one
\* event with its year and title; connector tells whether the line to the
\* next event is drawn after it (index < sortedEvents.length - 1).
TimelineView(block, r) ==
    Rendered([block EXCEPT !.events = r.events],
        [el |-> "timeline",
         items |-> [i \in 1..Len(r.sorted) |->
                      [year      |-> r.sorted[i].year,
                       title     |-> r.sorted[i].title,
                       connector |-> i < Len(r.sorted)]]])

TimelineBlockRenderer(block) ==
    IF ~Has(block, "events") THEN Thrown(block)   \* spread of undefined
    ELSE TimelineView(block, sortedEvents(block))

----------------------------------------------------------------------------
(* The older copies of the Section, Context and Timeline renderers, which  *)
(* the source keeps next to the ones above.  They name Tailwind colour     *)
(* classes where the ones above name theme tokens.                         *)

OlderCodeOpen  == "<code class=\"bg-gray-100 px-1 rounded\">"
OlderQuoteOpen == "<blockquote class=\"border-l-4 border-gray-300 pl-3 my-2 text-gray-600\">"
OlderContextStrongOpen == "<strong class=\"text-gray-700\">"

\* Variant: the older copy has no rule for code spans
EmphasisHtmlOlder_NoCode(s) ==
    ReplaceQuote(
        ReplaceDelimited(
            ReplaceDelimited(s, 1, "*", StrongOpen, StrongClose),
            1, "_", EmOpen, EmClose),
        1, OlderQuoteOpen, QuoteClose)

\* The chain of four replace calls of the older renderText
EmphasisHtmlOlder(s) ==
    ReplaceQuote(
        ReplaceDelimited(
            ReplaceDelimited(
                ReplaceDelimited(s, 1, "*", StrongOpen, StrongClose),
                1, "_", EmOpen, EmClose),
            1, Backtick, OlderCodeOpen, CodeClose),
        1, OlderQuoteOpen, QuoteClose)

renderTextOlder(text) ==
    IF text.type = "mrkdwn"
    THEN [input |-> text, view |-> [el |-> "div", html |-> EmphasisHtmlOlder(text.text)]]
    ELSE [input |-> text, view |-> [el |-> "p", chars |-> text.text]]

MapRenderTextOlder(ts) == [i \in 1..Len(ts) |-> renderTextOlder(ts[i])]

\* The older copy's tree and its button are those of SectionView, the
\* className conditional has the same three branches
SectionBlockRendererOlder(block, cb) ==
    SectionView(block, cb, MapRenderTextOlder(SectionTexts(block)),
                IF Has(block, "text") THEN 1 ELSE 0)

renderElementOlder(element) ==
    IF element.type = "mrkdwn"
    THEN <<[el |-> "span",
            html |-> ReplaceDelimited(element.text, 1, "*",
                                      OlderContextStrongOpen, StrongClose)]>>
    ELSE IF element.type = "plain_text"
         THEN <<[el |-> "span", chars |-> element.text]>>
         ELSE IF element.type = "image"
              THEN <<[el |-> "img", src |-> element.image_url,
                      alt |-> element.alt_text]>>
              ELSE <<>>

ContextBlockRendererOlder(block) ==
    IF ~Has(block, "elements") THEN Thrown(block)
    ELSE Rendered(block,
            [el |-> "context",
             children |-> Concat([i \in 1..Len(block.elements) |->
                                     renderElementOlder(block.elements[i])])])

\* sorted: the older copy's sortedEvents
TimelineItemsOlder(sorted) ==
    [index \in 1..Len(sorted) |->
        [year      |-> sorted[index].year,
         title     |-> sorted[index].title,
         connector |-> index - 1 < Len(sorted) - 1]]

TimelineBlockRendererOlder(block) ==
    IF ~Has(block, "events") THEN Thrown(block)
    ELSE Rendered(block,
            [el |-> "timeline", items |-> TimelineItemsOlder(ArraySort(block.events))])

----------------------------------------------------------------------------
(* The dispatcher *)

UnknownBlock == [el |-> "unknown", message |-> "Unknown block type"]

\* Variant: the default case throws instead of rendering the placeholder
BlockComponent_Throws(block, cb) ==
    CASE block.type = "header"   -> HeaderBlockRenderer(block)
      [] block.type = "section"  -> SectionBlockRenderer(block, cb)
      [] block.type = "context"  -> ContextBlockRenderer(block)
      [] block.type = "actions"  -> ActionsBlockRenderer(block, cb)
      [] block.type = "divider"  -> Rendered(block, DividerBlockRenderer)
      [] block.type = "timeline" -> TimelineBlockRenderer(block)
      [] OTHER                   -> Thrown(block)

\* The switch on block.type
BlockComponent(block, cb) ==
    CASE block.type = "header"   -> HeaderBlockRenderer(block)
      [] block.type = "section"  -> SectionBlockRenderer(block, cb)
      [] block.type = "context"  -> ContextBlockRenderer(block)
      [] block.type = "actions"  -> ActionsBlockRenderer(block, cb)
      [] block.type = "divider"  -> Rendered(block, DividerBlockRenderer)
      [] block.type = "timeline" -> TimelineBlockRenderer(block)
      [] OTHER                   -> Rendered(block, UnknownBlock)

\* blocks.map((block, index) => <BlockComponent key={index} .../>): one
\* child per block, in array order.  An error thrown by a child is not
\* caught, so the whole tree is lost.
Container(rs) ==
    [input |-> [i \in 1..Len(rs) |-> rs[i].input],
     threw |-> \E i \in 1..Len(rs) : rs[i].threw,
     view  |-> IF \E i \in 1..Len(rs) : rs[i].threw THEN <<>>
               ELSE [i \in 1..Len(rs) |-> rs[i].view]]

\* Variant: the children come out newest first
BlockRenderer_Reversed(bs, cb) ==
    Container([i \in 1..Len(bs) |-> BlockComponent(bs[Len(bs) + 1 - i], cb)])

\* Variant: an empty list renders a "nothing to show" child
BlockRenderer_EmptyNote(bs, cb) ==
    IF bs = <<>>
    THEN [input |-> <<>>, threw |-> FALSE, view |-> <<[el |-> "empty"]>>]
    ELSE Container([i \in 1..Len(bs) |-> BlockComponent(bs[i], cb)])

BlockRenderer(bs, cb) == Container([i \in 1..Len(bs) |-> BlockComponent(bs[i], cb)])

----------------------------------------------------------------------------
(* Click handlers.  Each returns the callback's invocation log after the   *)
(* click and whether the handler threw.                                    *)

\* Variant: the callback is entered a second time before the first call returns
Invoke_Nested(log, actionId, value) ==
    Append(Append(log, [actionId |-> actionId, value |-> value]),
           [actionId |-> actionId, value |-> value])

Invoke(log, actionId, value) == Append(log, [actionId |-> actionId, value |-> value])

\* Reading a property of an object: undefined when the object lacks it
Undefined == "undefined"
Get(r, f) == IF Has(r, f) THEN r[f] ELSE Undefined

\* x || fallback on an optional string: undefined and "" are falsy
Or(x, fallback) == IF x \in {Undefined, ""} THEN fallback ELSE x

ButtonId == "button"

Null == "null"

\* Variant: onAction(element.action_id, element.value), no fallbacks
handleClick_NoFallback(element, cb, log) ==
    IF cb
    THEN [calls |-> Invoke(log, Get(element, "action_id"), Get(element, "value")),
          threw |-> FALSE]
    ELSE [calls |-> log, threw |-> FALSE]

\* Variant: no `if (onAction)` guard; calling undefined is a TypeError
handleClick_NoGuard(element, cb, log) ==
    IF cb
    THEN [calls |-> Invoke(log, Or(Get(element, "action_id"), ButtonId),
                                Or(Get(element, "value"), "")),
          threw |-> FALSE]
    ELSE [calls |-> log, threw |-> TRUE]

\* handleClick of ActionsBlockRenderer
handleClick(element, cb, log) ==
    IF cb
    THEN [calls |-> Invoke(log, Or(Get(element, "action_id"), ButtonId),
                                Or(Get(element, "value"), "")),
          threw |-> FALSE]
    ELSE [calls |-> log, threw |-> FALSE]

\* Variant: the two arguments of onAction in the wrong order
handleAccessoryClick_Swapped(block, cb, log) ==
    IF Has(block, "accessory") /\ block.accessory.type = "button" /\ cb
    THEN [calls |-> Invoke(log, Or(Get(block.accessory, "value"), ""),
                                Or(Get(block.accessory, "action_id"), ButtonId)),
          threw |-> FALSE]
    ELSE [calls |-> log, threw |-> FALSE]

\* handleAccessoryClick of SectionBlockRenderer
handleAccessoryClick(block, cb, log) ==
    IF Has(block, "accessory") /\ block.accessory.type = "button" /\ cb
    THEN [calls |-> Invoke(log, Or(Get(block.accessory, "action_id"), ButtonId),
                                Or(Get(block.accessory, "value"), "")),
          threw |-> FALSE]
    ELSE [calls |-> log, threw |-> FALSE]

\* handleAccessoryClick of the older copy of SectionBlockRenderer
handleAccessoryClickOlder(block, cb, log) ==
    IF Has(block, "accessory") /\ block.accessory.type = "button" /\ cb
    THEN [calls |-> Invoke(log, Or(Get(block.accessory, "action_id"), ButtonId),
                                Or(Get(block.accessory, "value"), "")),
          threw |-> FALSE]
    ELSE [calls |-> log, threw |-> FALSE]

----------------------------------------------------------------------------
(* The block type model (types/blocks.ts) and the blocks of the model *)

KnownTypes == {"header", "section", "context", "actions", "divider", "timeline"}

IsTextObject(t) ==
    /\ {"type", "text"} \subseteq DOMAIN t
    /\ t.type \in {"plain_text", "mrkdwn"}

IsButton(e) ==
    /\ {"type", "text"} \subseteq DOMAIN e
    /\ e.type = "button"
    /\ IsTextObject(e.text)

IsImage(e) == {"type", "image_url", "alt_text"} \subseteq DOMAIN e /\ e.type = "image"

\* block satisfies the interface its type names
IsBlock(block) ==
    CASE block.type = "header"   -> Has(block, "text") /\ IsTextObject(block.text)
      [] block.type = "section"  ->
            /\ Has(block, "text") => IsTextObject(block.text)
            /\ Has(block, "fields") =>
                  \A i \in 1..Len(block.fields) : IsTextObject(block.fields[i])
            /\ Has(block, "accessory") =>
                  IsButton(block.accessory) \/ IsImage(block.accessory)
      [] block.type = "context"  ->
            /\ Has(block, "elements")
            /\ \A i \in 1..Len(block.elements) :
                  IsTextObject(block.elements[i]) \/ IsImage(block.elements[i])
      [] block.type = "actions"  ->
            /\ Has(block, "elements")
            /\ \A i \in 1..Len(block.elements) : IsButton(block.elements[i])
      [] block.type = "divider"  -> TRUE
      [] block.type = "timeline" -> Has(block, "events")
      [] OTHER                   -> FALSE

Mrkdwn(chars) == [type |-> "mrkdwn", text |-> chars]
PlainText(chars) == [type |-> "plain_text", text |-> chars]

ViewButton ==
    [type |-> "button", text |-> PlainText(<<"V">>),
     action_id |-> "view_article", value |-> "a1", style |-> "primary"]
BareButton == [type |-> "button", text |-> PlainText(<<"G">>)]
EmptyButton ==
    [type |-> "button", text |-> PlainText(<<"E">>),
     action_id |-> "", value |-> "", style |-> "danger"]
Icon == [type |-> "image", image_url |-> "i.png", alt_text |-> "icon"]

TimelineEvent(y, t) == [year |-> y, title |-> t, article_id |-> t]

HeaderA == [type |-> "header", text |-> PlainText(<<"T">>)]
SectionWithView ==
    [type |-> "section", text |-> Mrkdwn(<<"*", "a", "*", " ", "_", "b", "_">>),
     accessory |-> ViewButton]
SectionBare ==
    [type |-> "section",
     fields |-> <<Mrkdwn(<<Backtick, "c", Backtick>>), PlainText(<<"*", "p", "*">>)>>,
     accessory |-> BareButton]
SectionImage ==
    [type |-> "section", text |-> PlainText(<<"s">>), accessory |-> Icon]
ContextA == [type |-> "context", elements |-> <<Mrkdwn(<<"*", "i", "*">>), Icon>>]
ActionsA ==
    [type |-> "actions", elements |-> <<ViewButton, EmptyButton>>]
DividerA == [type |-> "divider"]
TimelineA ==
    [type |-> "timeline",
     events |-> <<TimelineEvent(2001, "b"), TimelineEvent(1990, "a"),
                  TimelineEvent(2001, "c")>>]
\* 'image' is a BlockType (blocks.ts) that the switch has no case for
ImageBlock == [type |-> "image"]
VideoBlock == [type |-> "video"]
\* a header that lacks its text: not a HeaderBlock
HeaderNoText == [type |-> "header"]

Blocks == {HeaderA, SectionWithView, SectionBare, SectionImage, ContextA, ActionsA,
           DividerA, TimelineA, ImageBlock, VideoBlock, HeaderNoText}

ClickBlocks == {SectionWithView, SectionBare, SectionImage, ActionsA}

IdemBlocks == {SectionWithView, ActionsA, TimelineA, VideoBlock}

MaxBlocks == 3
MaxShown  == 2
MaxClicks == 2
MaxIdem   == 2
MaxEvents == 4
MaxSegs   == 3
MaxPieces == 2

Years  == {1990, 2001, 2020}
Titles == {"a", "b"}
Events == {TimelineEvent(y, t) : y \in Years, t \in Titles}

----------------------------------------------------------------------------
(* Operations *)

\* The state of a ChatInterface that was created and not used: the useState
\* initial values, nothing in flight
\* ResultsPanel and TrendsDemo as their useState calls make them, before
\* their effects have run.  A value or null is a sequence of one element
\* or none where the value is not a string.
NewResultsPanel ==
    [threads |-> <<>>, loading |-> FALSE, error |-> Null, lastUpdated |-> Null,
     pending |-> 0]

NewTrendsDemo ==
    [loading |-> FALSE, result |-> <<>>, cachedTrends |-> <<>>, error |-> Null,
     forceRefresh |-> FALSE, call |-> <<>>, loads |-> 0, sent |-> <<>>]

PanelsUnused == resultsPanel = NewResultsPanel /\ trendsDemo = NewTrendsDemo

ChatUnused ==
    /\ messages = <<>>
    /\ isLoading = FALSE
    /\ isLoadingTrends = FALSE
    /\ analyses = {}
    /\ fetches = 0
    /\ lastTrendUpdate = Null
    /\ answered = <<>>

\* React calls BlockRenderer with the block objects objs and the callback
\* cb; orig is the value of those objects when the parent created them.
Mount(objs, orig, cb) ==
    \E r \in {BlockRenderer(objs, cb)} :
        /\ given' = orig
        /\ blocks' = r.input
        /\ onAction' = cb
        /\ view' = r.view
        /\ threw' = r.threw
        /\ UNCHANGED <<chatVars, panelVars>>

\* The parent adds a block to its list and renders again
RenderAppended(b, max) ==
    /\ Len(given) < max
    /\ Mount(Append(blocks, b), Append(given, b), onAction)
    /\ UNCHANGED <<clicks, calls, segs>>

\* The parent drops the oldest block and renders again
RenderRest ==
    /\ given # <<>>
    /\ Mount(Tail(blocks), Tail(given), onAction)
    /\ UNCHANGED <<clicks, calls, segs>>

\* The parent renders again with or without an onAction callback
SetOnAction(cb) ==
    /\ cb # onAction
    /\ Mount(blocks, given, cb)
    /\ UNCHANGED <<clicks, calls, segs>>

\* The parent renders again with the same props
ReRender ==
    /\ Mount(blocks, given, onAction)
    /\ UNCHANGED <<clicks, calls, segs>>

\* The user clicks button j of child i
Click(i, j) ==
    /\ Len(clicks) < MaxClicks
    /\ i \in 1..Len(view)
    /\ Has(view[i], "buttons")
    /\ j \in 1..Len(view[i].buttons)
    /\ \E cb \in {view[i].buttons[j].onAction} :
         \E h \in {IF view[i].el = "section"
                    THEN handleAccessoryClick(blocks[i], cb, calls)
                    ELSE handleClick(blocks[i].elements[j], cb, calls)} :
           /\ calls' = h.calls
           /\ threw' = h.threw
           /\ clicks' = Append(clicks,
                  [kind |-> view[i].el,
                   element |-> IF view[i].el = "section" THEN blocks[i].accessory
                               ELSE blocks[i].elements[j],
                   hadCallback |-> cb])
    /\ UNCHANGED <<given, blocks, onAction, view, segs>>
    /\ UNCHANGED <<chatVars, panelVars>>

Init ==
    /\ \E cb \in BOOLEAN :
          \E r \in {BlockRenderer(<<>>, cb)} :
              /\ given = <<>>
              /\ blocks = r.input
              /\ onAction = cb
              /\ view = r.view
              /\ threw = r.threw
    /\ clicks = <<>>
    /\ calls = <<>>
    /\ memo = <<>>
    /\ segs = <<>>
    /\ ChatUnused
    /\ PanelsUnused

\* The props and the view now, to compare a later render with
Remember ==
    /\ memo' = <<[given |-> given, onAction |-> onAction, view |-> view,
                  threw |-> threw, others |-> FALSE]>>
    /\ UNCHANGED <<given, blocks, onAction, view, threw, clicks, calls, segs>>
    /\ UNCHANGED <<chatVars, panelVars>>

\* Notes in memo that other props were rendered after it was taken
Track ==
    memo' = IF memo # <<>> /\ (given' # memo[1].given \/ onAction' # memo[1].onAction)
            THEN <<[memo[1] EXCEPT !.others = TRUE]>>
            ELSE memo

Next ==
    \/ (\E b \in Blocks : RenderAppended(b, MaxBlocks)) /\ UNCHANGED memo
    \/ RenderRest /\ UNCHANGED memo
    \/ (\E cb \in BOOLEAN : SetOnAction(cb)) /\ UNCHANGED memo
    \/ ReRender /\ UNCHANGED memo

Spec == Init /\ [][Next]_vars

NextClick ==
    \/ (\E b \in ClickBlocks : RenderAppended(b, MaxShown)) /\ UNCHANGED memo
    \/ RenderRest /\ UNCHANGED memo
    \/ (\E cb \in BOOLEAN : SetOnAction(cb)) /\ UNCHANGED memo
    \/ ReRender /\ UNCHANGED memo
    \/ (\E i \in 1..MaxShown, j \in 1..2 : Click(i, j)) /\ UNCHANGED memo

SpecClick == Init /\ [][NextClick]_vars

NextIdem ==
    \/ (\E b \in IdemBlocks : RenderAppended(b, MaxIdem)) /\ Track
    \/ RenderRest /\ Track
    \/ (\E cb \in BOOLEAN : SetOnAction(cb)) /\ Track
    \/ ReRender /\ Track
    \/ Remember

SpecIdem == Init /\ [][NextIdem]_vars

\* The parent renders one Timeline block and adds events to it
InitTimeline ==
    /\ \E r \in {BlockRenderer(<<[type |-> "timeline", events |-> <<>>]>>, FALSE)} :
          /\ given = <<[type |-> "timeline", events |-> <<>>]>>
          /\ blocks = r.input
          /\ onAction = FALSE
          /\ view = r.view
          /\ threw = r.threw
    /\ clicks = <<>>
    /\ calls = <<>>
    /\ memo = <<>>
    /\ segs = <<>>
    /\ ChatUnused
    /\ PanelsUnused

RenderWithEvent(e) ==
    /\ Len(given[1].events) < MaxEvents
    /\ Mount(<<[blocks[1] EXCEPT !.events = Append(@, e)]>>,
             <<[given[1] EXCEPT !.events = Append(@, e)]>>, onAction)
    /\ UNCHANGED <<clicks, calls, memo, segs>>

RenderWithoutEvents ==
    /\ Mount(<<[blocks[1] EXCEPT !.events = <<>>]>>,
             <<[given[1] EXCEPT !.events = <<>>]>>, onAction)
    /\ UNCHANGED <<clicks, calls, memo, segs>>

NextTimeline ==
    \/ \E e \in Events : RenderWithEvent(e)
    \/ RenderWithoutEvents
    \/ ReRender /\ UNCHANGED memo

SpecTimeline == InitTimeline /\ [][NextTimeline]_vars

\* A Section text is put together from pieces: plain text, and spans *X*,
\* _Y_ and `Z`.
Delimiters  == {"*", "_", Backtick}
SpanBodies  == {<<"x">>, <<"x", "y">>, <<"x", "\n", "y">>}
PlainBodies == {<<" ">>, <<"\n">>, QuoteMarker, <<"_">>, <<"*">>, <<">", " ">>}
Segments ==
    [kind : {"plain"}, body : PlainBodies]
        \cup [kind : {"bold", "italic", "code"}, body : SpanBodies]

Delimiter(kind) ==
    CASE kind = "bold" -> <<"*">>
      [] kind = "italic" -> <<"_">>
      [] kind = "code" -> <<Backtick>>
      [] OTHER -> <<>>

SegmentText(seg) == Delimiter(seg.kind) \o seg.body \o Delimiter(seg.kind)

\* The parent renders one Section block and extends its mrkdwn text
InitText ==
    /\ \E r \in {BlockRenderer(<<[type |-> "section", text |-> Mrkdwn(<<>>)]>>, FALSE)} :
          /\ given = <<[type |-> "section", text |-> Mrkdwn(<<>>)]>>
          /\ blocks = r.input
          /\ onAction = FALSE
          /\ view = r.view
          /\ threw = r.threw
    /\ clicks = <<>>
    /\ calls = <<>>
    /\ memo = <<>>
    /\ segs = <<>>
    /\ ChatUnused
    /\ PanelsUnused

RenderWithSegment(seg) ==
    /\ Len(segs) < MaxSegs
    /\ segs' = Append(segs, seg)
    /\ Mount(<<[blocks[1] EXCEPT !.text.text = @ \o SegmentText(seg)]>>,
             <<[given[1] EXCEPT !.text.text = @ \o SegmentText(seg)]>>, onAction)
    /\ UNCHANGED <<clicks, calls, memo>>

RenderWithEmptyText ==
    /\ segs' = <<>>
    /\ Mount(<<[blocks[1] EXCEPT !.text.text = <<>>]>>,
             <<[given[1] EXCEPT !.text.text = <<>>]>>, onAction)
    /\ UNCHANGED <<clicks, calls, memo>>

NextText ==
    \/ \E seg \in Segments : RenderWithSegment(seg)
    \/ RenderWithEmptyText
    \/ ReRender /\ UNCHANGED memo

SpecText == InitText /\ [][NextText]_vars

\* The parent renders one TextObject three times over: as the text and as
\* a field of a Section block, and as an element of a Context block
TextKinds == {"mrkdwn", "plain_text"}

ShownThrice(t) ==
    <<[type |-> "section", text |-> t, fields |-> <<t>>],
      [type |-> "context", elements |-> <<t>>]>>

InitKinds ==
    /\ \E kind \in TextKinds :
         \E r \in {BlockRenderer(ShownThrice([type |-> kind, text |-> <<>>]), FALSE)} :
             /\ given = ShownThrice([type |-> kind, text |-> <<>>])
             /\ blocks = r.input
             /\ onAction = FALSE
             /\ view = r.view
             /\ threw = r.threw
    /\ clicks = <<>>
    /\ calls = <<>>
    /\ memo = <<>>
    /\ segs = <<>>
    /\ ChatUnused
    /\ PanelsUnused

\* The text grows by one piece
RenderKindsWithSegment(seg) ==
    /\ Len(segs) < MaxPieces
    /\ segs' = Append(segs, seg)
    /\ \E t \in {[blocks[1].text EXCEPT !.text = @ \o SegmentText(seg)]} :
          Mount(ShownThrice(t), ShownThrice(t), onAction)
    /\ UNCHANGED <<clicks, calls, memo>>

\* The same text becomes a TextObject of the other kind
RenderAsKind(kind) ==
    /\ kind # given[1].text.type
    /\ \E t \in {[blocks[1].text EXCEPT !.type = kind]} :
          Mount(ShownThrice(t), ShownThrice(t), onAction)
    /\ UNCHANGED <<clicks, calls, memo, segs>>

RenderKindsEmpty ==
    /\ segs' = <<>>
    /\ \E t \in {[blocks[1].text EXCEPT !.text = <<>>]} :
          Mount(ShownThrice(t), ShownThrice(t), onAction)
    /\ UNCHANGED <<clicks, calls, memo>>

NextKinds ==
    \/ \E seg \in Segments : RenderKindsWithSegment(seg)
    \/ \E kind \in TextKinds : RenderAsKind(kind)
    \/ RenderKindsEmpty
    \/ ReRender /\ UNCHANGED memo

SpecKinds == InitKinds /\ [][NextKinds]_vars


----------------------------------------------------------------------------
(* ChatInterface: the message list, the analysis a submission starts and    *)
(* the fetch of the trend messages.  A ChatMessage is a record with the     *)
(* fields id, type and content, and isLoading, threads or proactiveThread   *)
(* where the code sets them (the timestamp is left out).  A call that       *)
(* awaits is two steps: up to the await, and from the answer on.            *)

\* generateId is Math.random().toString(36).substring(2, 9): any such
\* string, whatever ids were made before
GeneratedIds == {"k3f9a2x", "z81x0qm"}

Whitespace == {" ", "\n"}

\* String.prototype.trim on a sequence of characters
RECURSIVE TrimStart(_)
TrimStart(cs) ==
    IF cs # <<>> /\ Head(cs) \in Whitespace THEN TrimStart(Tail(cs)) ELSE cs

RECURSIVE TrimEnd(_)
TrimEnd(cs) ==
    IF cs # <<>> /\ cs[Len(cs)] \in Whitespace
    THEN TrimEnd(SubSeq(cs, 1, Len(cs) - 1)) ELSE cs

Trim(cs) == TrimEnd(TrimStart(cs))

\* What the user has typed into the field of the current input mode
Typed == {<<>>, <<" ">>, <<" ", "q", " ">>}
InputModes == {"text", "article"}

userMessage(id, inputMode, content) ==
    [id |-> id,
     type |-> IF inputMode = "text" THEN "user-text" ELSE "user-article",
     content |-> content]

loadingMessage(id) ==
    [id |-> id, type |-> "system", content |-> <<>>, isLoading |-> TRUE]

\* prev.filter((m) => m.id !== loadingMessage.id)
\* Variant: the filter is left out
withoutLoading_Kept(prev, id) == prev

\* Variant: the placeholder is edited in place instead of being taken out
withoutLoading_Edited(prev, id) ==
    [i \in 1..Len(prev) |->
        IF prev[i].id = id /\ Has(prev[i], "isLoading")
        THEN [prev[i] EXCEPT !.isLoading = FALSE] ELSE prev[i]]

withoutLoading(prev, id) == SelectSeq(prev, LAMBDA m : m.id # id)

\* `Found ${n} relevant story thread${n > 1 ? 's' : ''}`
FoundText(n) ==
    <<"Found", n, IF n > 1 THEN "relevant story threads" ELSE "relevant story thread">>

summaryMessage(id, threads) ==
    [id |-> id, type |-> "system", content |-> FoundText(Len(threads)),
     threads |-> threads]

NoResultsText == <<"No relevant story threads found for this query.">>

noResultsMessage(id) == [id |-> id, type |-> "system", content |-> NoResultsText]

FallbackErrorText == <<"An error occurred while analyzing.">>

\* error instanceof Error ? error.message : 'An error occurred while analyzing.'
\* Variant: the message of the error is shown whatever was thrown
ErrorText_NoFallback(error) == IF Has(error, "message") THEN error.message ELSE <<>>

ErrorText(error) == IF error.isError THEN error.message ELSE FallbackErrorText

errorMessage(id, error) == [id |-> id, type |-> "system", content |-> ErrorText(error)]

\* The threads an answer can carry
ThreadIds == {"t1", "t2"}
Threads ==
    {[thread_id |-> "t1", central_topic |-> "climate"],
     [thread_id |-> "t2", central_topic |-> "economy"]}

SeqsUpTo(S, n) == UNION {[1..k -> S] : k \in 0..n}

\* What analyzeText / analyzeArticle resolve with
AnalysisResults ==
    {[success |-> TRUE, data |-> [threads |-> <<>>]],
     [success |-> TRUE, data |-> [threads |-> <<CHOOSE t \in Threads : t.thread_id = "t1">>]],
     [success |-> FALSE, data |-> [threads |-> <<>>]]}

\* What they reject with: an Error and its message, or another value
AnalysisErrors ==
    {[isError |-> TRUE, message |-> <<"Failed to fetch">>],
     [isError |-> FALSE]}

\* id: `trend-${thread.thread_id}`
trendMessages(threads) ==
    [i \in 1..Len(threads) |->
        [id |-> "trend-" \o threads[i].thread_id,
         type |-> "trend",
         content |-> <<threads[i].central_topic>>,
         proactiveThread |-> threads[i]]]

\* prev.filter((m) => m.type !== 'trend')
withoutTrends(prev) == SelectSeq(prev, LAMBDA m : m.type # "trend")

GeneratedAt == {"10:00", "11:00"}

MaxMessages == 2
MaxThreads  == 2
MaxFetches  == 2

\* What getProactiveSuggestions resolves with
\* with the time the suggestions were generated at
TrendResponses ==
    {[success |-> FALSE, threads |-> ts, generated_at |-> at] :
        ts \in SeqsUpTo(Threads, 1), at \in GeneratedAt}
        \cup {[success |-> TRUE, threads |-> ts, generated_at |-> at] :
                  ts \in SeqsUpTo(Threads, MaxThreads), at \in GeneratedAt}

\* ChatInterface is mounted: the effect of line 81 has called
\* fetchTrendMessages, which waits for its response
InitChat ==
    /\ \E r \in {BlockRenderer(<<>>, FALSE)} :
          /\ given = <<>>
          /\ blocks = r.input
          /\ onAction = FALSE
          /\ view = r.view
          /\ threw = r.threw
    /\ clicks = <<>>
    /\ calls = <<>>
    /\ memo = <<>>
    /\ segs = <<>>
    /\ messages = <<>>
    /\ isLoading = FALSE
    /\ isLoadingTrends = TRUE
    /\ analyses = {}
    /\ fetches = 1
    /\ lastTrendUpdate = Null
    /\ answered = <<>>
    /\ PanelsUnused

\* Variant: no `if (!content || isLoading) return`
SendUpTo_Unguarded(max, inputMode, typed) ==
    /\ Len(withoutTrends(messages)) + 2 <= max
    /\ \E userId \in GeneratedIds, loadingId \in GeneratedIds :
          /\ messages' = messages \o <<userMessage(userId, inputMode, Trim(typed)),
                                       loadingMessage(loadingId)>>
          /\ analyses' = analyses \cup {[loadingId |-> loadingId]}
    /\ isLoading' = TRUE
    /\ UNCHANGED <<isLoadingTrends, fetches, lastTrendUpdate>>
    /\ UNCHANGED <<rendererVars, panelVars>>

\* handleSendMessage up to its await: the user submits what is typed, the
\* list holding at most max messages that are no trend messages afterwards
SendUpTo(max, inputMode, typed) ==
    /\ Trim(typed) # <<>>
    /\ ~isLoading
    /\ Len(withoutTrends(messages)) + 2 <= max
    /\ \E userId \in GeneratedIds, loadingId \in GeneratedIds :
          /\ messages' = messages \o <<userMessage(userId, inputMode, Trim(typed)),
                                       loadingMessage(loadingId)>>
          /\ analyses' = analyses \cup {[loadingId |-> loadingId]}
    /\ isLoading' = TRUE
    /\ UNCHANGED <<isLoadingTrends, fetches, lastTrendUpdate>>
    /\ UNCHANGED <<rendererVars, panelVars>>

handleSendMessage(inputMode, typed) == SendUpTo(MaxMessages, inputMode, typed)

\* handleSendMessage from the await on, the call having resolved
AnalysisResolves(a, result) ==
    /\ a \in analyses
    /\ \E id \in GeneratedIds :
          \E prev \in {withoutLoading(messages, a.loadingId)} :
              messages' =
                  IF result.success /\ Len(result.data.threads) > 0
                  THEN Append(prev, summaryMessage(id, result.data.threads))
                  ELSE Append(prev, noResultsMessage(id))
    /\ isLoading' = FALSE
    /\ analyses' = analyses \ {a}
    /\ UNCHANGED <<isLoadingTrends, fetches, lastTrendUpdate>>
    /\ UNCHANGED <<rendererVars, panelVars>>

\* handleSendMessage from the await on, the call having rejected
AnalysisRejects(a, error) ==
    /\ a \in analyses
    /\ \E id \in GeneratedIds :
          \E prev \in {withoutLoading(messages, a.loadingId)} :
              messages' = Append(prev, errorMessage(id, error))
    /\ isLoading' = FALSE
    /\ analyses' = analyses \ {a}
    /\ UNCHANGED <<isLoadingTrends, fetches, lastTrendUpdate>>
    /\ UNCHANGED <<rendererVars, panelVars>>

AnalysisSettles ==
    \E a \in analyses :
        \/ \E result \in AnalysisResults : AnalysisResolves(a, result)
        \/ \E error \in AnalysisErrors : AnalysisRejects(a, error)

\* Variant: Clear Chat empties the list
handleClearChat_All ==
    /\ messages' = <<>>
    /\ UNCHANGED <<isLoading, isLoadingTrends, analyses, fetches, lastTrendUpdate>>
    /\ UNCHANGED <<rendererVars, panelVars>>

\* setMessages((prev) => prev.filter((m) => m.type === 'trend'))
handleClearChat ==
    /\ messages' = SelectSeq(messages, LAMBDA m : m.type = "trend")
    /\ UNCHANGED <<isLoading, isLoadingTrends, analyses, fetches, lastTrendUpdate>>
    /\ UNCHANGED <<rendererVars, panelVars>>

\* fetchTrendMessages up to its await.  The refresh button is disabled
\* while isLoadingTrends; handlePurgeQueue, handleTriggerWatch and
\* handleTriggerWatchCached call it whatever isLoadingTrends is.
fetchTrendMessages(byButton) ==
    /\ byButton => ~isLoadingTrends
    /\ fetches < MaxFetches
    /\ isLoadingTrends' = TRUE
    /\ fetches' = fetches + 1
    /\ UNCHANGED <<messages, isLoading, analyses, lastTrendUpdate>>
    /\ UNCHANGED <<rendererVars, panelVars>>

\* Variant: the new trend messages go to the end of the list
TrendsResolve_Appends(response) ==
    /\ fetches > 0
    /\ lastTrendUpdate' =
          IF response.success /\ Len(response.threads) > 0
          THEN response.generated_at
          ELSE lastTrendUpdate
    /\ messages' =
          IF response.success /\ Len(response.threads) > 0
          THEN withoutTrends(messages) \o trendMessages(response.threads)
          ELSE messages
    /\ isLoadingTrends' = FALSE
    /\ fetches' = fetches - 1
    /\ UNCHANGED <<isLoading, analyses>>
    /\ UNCHANGED <<rendererVars, panelVars>>

\* Variant: the trends on show are replaced whatever the response is
TrendsResolve_Unconditional(response) ==
    /\ fetches > 0
    /\ lastTrendUpdate' = response.generated_at
    /\ messages' = trendMessages(response.threads) \o withoutTrends(messages)
    /\ isLoadingTrends' = FALSE
    /\ fetches' = fetches - 1
    /\ UNCHANGED <<isLoading, analyses>>
    /\ UNCHANGED <<rendererVars, panelVars>>

\* fetchTrendMessages from the await on, the call having resolved
TrendsResolve(response) ==
    /\ fetches > 0
    /\ lastTrendUpdate' =
          IF response.success /\ Len(response.threads) > 0
          THEN response.generated_at
          ELSE lastTrendUpdate
    /\ messages' =
          IF response.success /\ Len(response.threads) > 0
          THEN trendMessages(response.threads) \o withoutTrends(messages)
          ELSE messages
    /\ isLoadingTrends' = FALSE
    /\ fetches' = fetches - 1
    /\ UNCHANGED <<isLoading, analyses>>
    /\ UNCHANGED <<rendererVars, panelVars>>

\* fetchTrendMessages from the await on, the call having rejected
TrendsReject ==
    /\ fetches > 0
    /\ isLoadingTrends' = FALSE
    /\ fetches' = fetches - 1
    /\ UNCHANGED <<messages, isLoading, analyses, lastTrendUpdate>>
    /\ UNCHANGED <<rendererVars, panelVars>>

NextChat ==
    \/ (\E inputMode \in InputModes, typed \in Typed :
            handleSendMessage(inputMode, typed)) /\ UNCHANGED answered
    \/ (\E a \in analyses, result \in AnalysisResults :
            AnalysisResolves(a, result)) /\ UNCHANGED answered
    \/ (\E a \in analyses, error \in AnalysisErrors :
            AnalysisRejects(a, error)) /\ UNCHANGED answered
    \/ handleClearChat /\ UNCHANGED answered
    \/ (\E byButton \in BOOLEAN : fetchTrendMessages(byButton)) /\ UNCHANGED answered
    \/ (\E response \in TrendResponses : TrendsResolve(response)) /\ UNCHANGED answered
    \/ TrendsReject /\ UNCHANGED answered

\* The analysis call answers in the end: it resolves or it rejects
SpecChat ==
    InitChat /\ [][NextChat]_vars /\ WF_vars(AnalysisSettles /\ UNCHANGED answered)

\* The same chat, with a note of how each fetch of the trends was answered
Resolved(response) ==
    [resolved |-> TRUE, success |-> response.success, threads |-> response.threads]
Rejected == [resolved |-> FALSE]

NextRefresh ==
    \/ (\E inputMode \in InputModes, typed \in Typed :
            handleSendMessage(inputMode, typed)) /\ UNCHANGED answered
    \/ (\E a \in analyses, result \in AnalysisResults :
            AnalysisResolves(a, result)) /\ UNCHANGED answered
    \/ handleClearChat /\ UNCHANGED answered
    \/ (\E byButton \in BOOLEAN : fetchTrendMessages(byButton)) /\ UNCHANGED answered
    \/ \E response \in TrendResponses :
          TrendsResolve(response) /\ answered' = <<Resolved(response)>>
    \/ TrendsReject /\ answered' = <<Rejected>>

SpecRefresh == InitChat /\ [][NextRefresh]_vars

\* The chat without its trends: the fetch of the mount fails and the user
\* submits, waits or not, and clears
MaxSent == 4

NextSend ==
    \/ (\E inputMode \in InputModes, typed \in Typed :
            SendUpTo(MaxSent, inputMode, typed)) /\ UNCHANGED answered
    \/ (\E a \in analyses, result \in AnalysisResults :
            AnalysisResolves(a, result)) /\ UNCHANGED answered
    \/ (\E a \in analyses, error \in AnalysisErrors :
            AnalysisRejects(a, error)) /\ UNCHANGED answered
    \/ handleClearChat /\ UNCHANGED answered
    \/ TrendsReject /\ UNCHANGED answered

SpecSend == InitChat /\ [][NextSend]_vars

----------------------------------------------------------------------------
(* ResultsPanel: threads, loading, error and lastUpdated, and pending, the *)
(* number of fetchMessages calls that wait for their response              *)

chatState == <<messages, isLoading, isLoadingTrends, analyses, fetches, lastTrendUpdate>>

\* What getProactiveSuggestions rejects with: an Error and its message
\* (which can be empty), or another value
FetchErrors ==
    {[isError |-> TRUE, message |-> "Failed to fetch"],
     [isError |-> TRUE, message |-> ""],
     [isError |-> FALSE]}

\* The effect of lines 83-85 has called fetchMessages
InitResults ==
    /\ \E r \in {BlockRenderer(<<>>, FALSE)} :
          /\ given = <<>>
          /\ blocks = r.input
          /\ onAction = FALSE
          /\ view = r.view
          /\ threw = r.threw
    /\ clicks = <<>>
    /\ calls = <<>>
    /\ memo = <<>>
    /\ segs = <<>>
    /\ ChatUnused
    /\ resultsPanel = [NewResultsPanel EXCEPT !.loading = TRUE, !.pending = 1]
    /\ trendsDemo = NewTrendsDemo

\* fetchMessages up to its await; the refresh button is disabled while loading
fetchMessages ==
    /\ ~resultsPanel.loading
    /\ resultsPanel' = [resultsPanel EXCEPT !.loading = TRUE, !.error = Null,
                                            !.pending = @ + 1]
    /\ UNCHANGED <<rendererVars, chatVars, trendsDemo>>

\* fetchMessages from the await on, the call having resolved
FetchResolves(response) ==
    /\ resultsPanel.pending > 0
    /\ resultsPanel' =
          IF response.success
          THEN [resultsPanel EXCEPT !.threads = response.threads,
                                    !.lastUpdated = response.generated_at,
                                    !.loading = FALSE, !.pending = @ - 1]
          ELSE [resultsPanel EXCEPT !.error = "Failed to fetch messages",
                                    !.loading = FALSE, !.pending = @ - 1]
    /\ answered' = <<[resolved |-> TRUE, response |-> response]>>
    /\ UNCHANGED <<rendererVars, chatState, trendsDemo>>

\* Variant: a failed request empties the list of threads
FetchRejects_DropsThreads(error) ==
    /\ resultsPanel.pending > 0
    /\ resultsPanel' =
          [resultsPanel EXCEPT
              !.threads = <<>>,
              !.error = IF error.isError THEN error.message
                        ELSE "An error occurred while fetching messages",
              !.loading = FALSE, !.pending = @ - 1]
    /\ answered' = <<Rejected>>
    /\ UNCHANGED <<rendererVars, chatState, trendsDemo>>

\* fetchMessages from the await on, the call having rejected
FetchRejects(error) ==
    /\ resultsPanel.pending > 0
    /\ resultsPanel' =
          [resultsPanel EXCEPT
              !.error = IF error.isError THEN error.message
                        ELSE "An error occurred while fetching messages",
              !.loading = FALSE, !.pending = @ - 1]
    /\ answered' = <<Rejected>>
    /\ UNCHANGED <<rendererVars, chatState, trendsDemo>>

NextResults ==
    \/ fetchMessages
    \/ \E response \in TrendResponses : FetchResolves(response)
    \/ \E error \in FetchErrors : FetchRejects(error)

SpecResults == InitResults /\ [][NextResults]_vars

----------------------------------------------------------------------------
(* TrendsDemo: loading, result, cachedTrends, error and forceRefresh; call, *)
(* the await handleTriggerDemo waits at ("trigger" or "reload"); loads,    *)
(* the number of loadCachedTrends calls of the mount that wait; and sent,  *)
(* history: the state of the box and the force_refresh argument at the     *)
(* last call of triggerTrendsDemo.  cachedTimestamp is left out.           *)

\* What getCurrentTrends answers: a response, or a rejection
CurrentTrendsAnswers ==
    {[success |-> FALSE],
     [success |-> TRUE],
     [success |-> TRUE, trends |-> <<>>],
     [success |-> TRUE, trends |-> <<"ai">>],
     [rejected |-> TRUE]}

\* loadCachedTrends from its await on: the value of cachedTrends afterwards
loadCachedTrends(cachedTrends, data) ==
    IF /\ ~Has(data, "rejected")
       /\ data.success
       /\ Has(data, "trends")
       /\ Len(data.trends) > 0
    THEN <<data.trends>>
    ELSE cachedTrends

\* What triggerTrendsDemo rejects with
DemoErrors ==
    {[isError |-> TRUE, message |-> "429 rate limit"], [isError |-> FALSE]}

\* The effect of lines 30-32 has called loadCachedTrends
InitDemo ==
    /\ \E r \in {BlockRenderer(<<>>, FALSE)} :
          /\ given = <<>>
          /\ blocks = r.input
          /\ onAction = FALSE
          /\ view = r.view
          /\ threw = r.threw
    /\ clicks = <<>>
    /\ calls = <<>>
    /\ memo = <<>>
    /\ segs = <<>>
    /\ ChatUnused
    /\ resultsPanel = NewResultsPanel
    /\ trendsDemo = [NewTrendsDemo EXCEPT !.loads = 1]

\* The loadCachedTrends call of the mount is answered
MountLoadEnds(data) ==
    /\ trendsDemo.loads > 0
    /\ trendsDemo' =
          [trendsDemo EXCEPT !.cachedTrends = loadCachedTrends(@, data),
                             !.loads = @ - 1]
    /\ UNCHANGED <<rendererVars, chatVars, resultsPanel>>

\* The user ticks or clears the force-refresh box
setForceRefresh(checked) ==
    /\ checked # trendsDemo.forceRefresh
    /\ trendsDemo' = [trendsDemo EXCEPT !.forceRefresh = checked]
    /\ UNCHANGED <<rendererVars, chatVars, resultsPanel>>

\* The argument handleTriggerDemo passes to triggerTrendsDemo
force_refresh(demo) ==
    ~(/\ ~demo.forceRefresh
      /\ demo.cachedTrends # <<>>
      /\ Len(demo.cachedTrends[1]) > 0)

\* handleTriggerDemo up to its first await; the button is disabled while loading
handleTriggerDemo ==
    /\ ~trendsDemo.loading
    /\ trendsDemo' =
          [trendsDemo EXCEPT
              !.loading = TRUE,
              !.error = Null,
              !.call = <<"trigger">>,
              !.sent = <<[box |-> trendsDemo.forceRefresh,
                          force_refresh |-> force_refresh(trendsDemo)]>>]
    /\ UNCHANGED <<rendererVars, chatVars, resultsPanel>>

\* triggerTrendsDemo has resolved: setResult, then loadCachedTrends is called
TriggerResolves ==
    /\ trendsDemo.call = <<"trigger">>
    /\ trendsDemo' = [trendsDemo EXCEPT !.result = <<"data">>, !.call = <<"reload">>]
    /\ UNCHANGED <<rendererVars, chatVars, resultsPanel>>

\* triggerTrendsDemo has rejected: the catch and the finally
TriggerRejects(error) ==
    /\ trendsDemo.call = <<"trigger">>
    /\ trendsDemo' =
          [trendsDemo EXCEPT
              !.error = IF error.isError THEN error.message ELSE "An error occurred",
              !.loading = FALSE,
              !.call = <<>>]
    /\ UNCHANGED <<rendererVars, chatVars, resultsPanel>>

\* The loadCachedTrends call of handleTriggerDemo is answered (it never
\* rejects, having its own catch), then the finally
ReloadEnds(data) ==
    /\ trendsDemo.call = <<"reload">>
    /\ trendsDemo' =
          [trendsDemo EXCEPT !.cachedTrends = loadCachedTrends(@, data),
                             !.loading = FALSE,
                             !.call = <<>>]
    /\ UNCHANGED <<rendererVars, chatVars, resultsPanel>>

NextDemo ==
    \/ \E data \in CurrentTrendsAnswers : MountLoadEnds(data)
    \/ \E checked \in BOOLEAN : setForceRefresh(checked)
    \/ handleTriggerDemo
    \/ TriggerResolves
    \/ \E error \in DemoErrors : TriggerRejects(error)
    \/ \E data \in CurrentTrendsAnswers : ReloadEnds(data)

SpecDemo == InitDemo /\ [][NextDemo]_vars

----------------------------------------------------------------------------
(* One page of blocks, rendered once and clicked on: the pages carry every *)
(* text, every button style and every list of events of the model          *)

\* a style the type model does not list; the className conditional still
\* has to pick a branch for it
OutlineButton ==
    [type |-> "button", text |-> PlainText(<<"O">>),
     action_id |-> "more", value |-> "m", style |-> "outline"]
SectionQuoted ==
    [type |-> "section",
     text |-> Mrkdwn(QuoteMarker \o <<"q", "\n", Backtick, "c", Backtick>>),
     accessory |-> EmptyButton]
SectionOutline ==
    [type |-> "section", text |-> PlainText(<<"o">>), accessory |-> OutlineButton]
ActionsOutline ==
    [type |-> "actions", elements |-> <<BareButton, OutlineButton>>]

PageBlocks == {SectionWithView, SectionBare, SectionImage, SectionQuoted,
               SectionOutline, ContextA, ActionsA, ActionsOutline}

PageTexts ==
    {Concat([i \in 1..Len(pieces) |-> SegmentText(pieces[i])]) :
        pieces \in SeqsUpTo(Segments, MaxPieces)}

Pages ==
    {<<b>> : b \in PageBlocks}
        \cup {ShownThrice([type |-> kind, text |-> t]) :
                 kind \in TextKinds, t \in PageTexts}
        \cup {<<[type |-> "timeline", events |-> es]>> :
                 es \in SeqsUpTo(Events, MaxEvents)}

InitPage ==
    /\ \E page \in Pages, cb \in BOOLEAN :
          \E r \in {BlockRenderer(page, cb)} :
              /\ given = page
              /\ blocks = r.input
              /\ onAction = cb
              /\ view = r.view
              /\ threw = r.threw
    /\ clicks = <<>>
    /\ calls = <<>>
    /\ memo = <<>>
    /\ segs = <<>>
    /\ ChatUnused
    /\ PanelsUnused

NextPage ==
    \/ (\E cb \in BOOLEAN : SetOnAction(cb)) /\ UNCHANGED memo
    \/ ReRender /\ UNCHANGED memo
    \/ (\E j \in 1..2 : Click(1, j)) /\ UNCHANGED memo

SpecPage == InitPage /\ [][NextPage]_vars

----------------------------------------------------------------------------
(* Properties of the dispatcher (Spec) *)

\* Every block of bs is a Block of the type model or carries a type the
\* switch does not know
Dispatchable(bs) ==
    \A i \in 1..Len(bs) : IsBlock(bs[i]) \/ bs[i].type \notin KnownTypes

\* C1: for every block sequence, BlockRenderer produces exactly one child
\* per block, and child i is the rendering of block i alone, whatever the
\* other blocks are.
C1_OneChildPerBlockInOrder ==
    Dispatchable(given) =>
        /\ ~threw
        /\ Len(view) = Len(given)
        /\ \A i \in 1..Len(given) : view[i] = BlockComponent(given[i], onAction).view

C1_Witness ==
    /\ Len(given) = 3
    /\ Dispatchable(given)
    /\ given[1].type = "timeline" /\ given[2].type = "header"
    /\ given[3].type = "section"
    /\ Len(view) = 3
    /\ view[1].el = "timeline" /\ view[3].el = "section"

\* C2: a block of unknown type renders as the 'Unknown block type'
\* placeholder, no error is raised, and every valid block before and after
\* it is rendered at its own position.
C2_UnknownTypeIsPlaceholder ==
    Dispatchable(given) =>
        /\ ~threw
        /\ Len(view) = Len(given)
        /\ \A i \in 1..Len(given) :
              IF given[i].type \in KnownTypes
              THEN view[i].el = given[i].type
              ELSE view[i] = [el |-> "unknown", message |-> "Unknown block type"]

C2_Witness ==
    /\ Len(given) = 3
    /\ IsBlock(given[1]) /\ IsBlock(given[3])
    /\ given[2].type \notin KnownTypes
    /\ ~threw
    /\ view[1].el = given[1].type
    /\ view[2].el = "unknown"
    /\ view[3].el = given[3].type

\* C7: rendering the empty block sequence yields a container with no
\* children and raises no error.
C7_EmptySequenceRendersNothing ==
    given = <<>> => (view = <<>> /\ ~threw)

C7_Witness == given = <<>> /\ blocks = <<>> /\ view = <<>> /\ ~threw

\* C9: rendering never mutates its input: after every render the block
\* objects equal the values they were created with (a Timeline's events
\* keep their order, a TextObject keeps its text).
C9_InputUnchanged == blocks = given

C9_Witness ==
    /\ ~threw
    /\ \E i \in 1..Len(given) :
          /\ given[i].type = "timeline"
          /\ view[i].el = "timeline"
          /\ \E k \in 1..(Len(given[i].events) - 1) :
                given[i].events[k].year > given[i].events[k + 1].year
          /\ blocks[i].events = given[i].events
    /\ \E i \in 1..Len(given) :
          /\ given[i].type = "section"
          /\ Has(given[i], "text")
          /\ given[i].text.type = "mrkdwn"
          /\ view[i].body[1].html # given[i].text.text
          /\ blocks[i].text = given[i].text

----------------------------------------------------------------------------
(* Properties of the Timeline renderer (SpecTimeline) *)

TitlesOfYear(es, y) ==
    LET picked == SelectSeq(es, LAMBDA e : e.year = y)
    IN  [i \in 1..Len(picked) |-> picked[i].title]

\* C3: the events a Timeline block renders are the input events, ordered
\* non-decreasing by year, and events of equal year keep the relative order
\* they have in the input.
C3_TimelineStableSortByYear ==
    LET input == given[1].events
        shown == view[1].items
    IN  /\ Len(shown) = Len(input)
        /\ \A i \in 1..(Len(shown) - 1) : shown[i].year <= shown[i + 1].year
        /\ \A y \in Years : TitlesOfYear(shown, y) = TitlesOfYear(input, y)

C3_Witness ==
    /\ Len(given[1].events) = 4
    /\ given[1].events[1].year = 2001 /\ given[1].events[1].title = "b"
    /\ given[1].events[2].year = 1990
    /\ given[1].events[3].year = 2001 /\ given[1].events[3].title = "a"
    /\ view[1].items[1].year = 1990
    /\ view[1].items[2].title = "b" /\ view[1].items[3].title = "a"

----------------------------------------------------------------------------
(* Properties of the action callback (SpecClick) *)

\* The clicks made on a button whose onClick had a callback to call
HeardClicks == SelectSeq(clicks, LAMBDA c : c.hadCallback)

\* C4: a click on a button that lacks action_id invokes the callback with
\* "button", and with value "" when value is absent too; the callback is
\* never invoked with an undefined or empty action id or an undefined value.
C4_FallbackActionIdAndValue ==
    /\ \A k \in 1..Len(calls) :
          /\ calls[k].actionId \notin {Undefined, ""}
          /\ calls[k].value # Undefined
    /\ \A k \in 1..Len(HeardClicks) :
          /\ k <= Len(calls)
          /\ ~Has(HeardClicks[k].element, "action_id") =>
                /\ calls[k].actionId = "button"
                /\ ~Has(HeardClicks[k].element, "value") => calls[k].value = ""

C4_Witness ==
    /\ Len(calls) = 2
    /\ clicks[1].kind = "section" /\ clicks[1].hadCallback
    /\ ~Has(clicks[1].element, "action_id") /\ ~Has(clicks[1].element, "value")
    /\ calls[1] = [actionId |-> "button", value |-> ""]
    /\ clicks[2].kind = "actions" /\ clicks[2].hadCallback
    /\ Has(clicks[2].element, "action_id") /\ clicks[2].element.action_id = ""
    /\ calls[2].actionId = "button"

\* C5: with a callback attached, n clicks give exactly n invocations, and
\* the k-th invocation carries the action_id and the value of the k-th
\* clicked button, whether the button sits in an Actions block or is a
\* Section accessory.
C5_OneInvocationPerClick ==
    /\ Len(calls) = Len(HeardClicks)
    /\ \A k \in 1..Len(HeardClicks) :
          LET b == HeardClicks[k].element
          IN  /\ (Has(b, "action_id") /\ b.action_id # "") =>
                    calls[k].actionId = b.action_id
              /\ Has(b, "value") => calls[k].value = b.value

C5_Witness ==
    /\ Len(clicks) = 2
    /\ clicks[1].hadCallback /\ clicks[2].hadCallback
    /\ clicks[1].kind = "section" /\ clicks[2].kind = "actions"
    /\ clicks[1].element.text.text = <<"V">>
    /\ clicks[2].element.text.text = <<"V">>
    /\ calls = <<[actionId |-> "view_article", value |-> "a1"],
                 [actionId |-> "view_article", value |-> "a1"]>>

\* The buttons child i shows for block b
ButtonsShownFor(b, v) ==
    CASE b.type = "actions" ->
            /\ Len(v.buttons) = Len(b.elements)
            /\ \A j \in 1..Len(b.elements) :
                  v.buttons[j].label = b.elements[j].text.text
      [] b.type = "section" /\ Has(b, "accessory") /\ b.accessory.type = "button" ->
            /\ Len(v.buttons) = 1
            /\ v.buttons[1].label = b.accessory.text.text
      [] OTHER -> TRUE

\* A step that is a click on a button rendered without a callback
InertClick ==
    /\ Len(clicks') = Len(clicks) + 1
    /\ ~clicks'[Len(clicks')].hadCallback

\* C6: without an onAction callback every button of every Actions block
\* and every Section button accessory is still rendered, and a click on one
\* changes nothing and raises no error.
C6_NoCallbackClicksAreNoOps ==
    /\ [](~onAction =>
            /\ Len(view) = Len(given)
            /\ \A i \in 1..Len(given) : ButtonsShownFor(given[i], view[i]))
    /\ [][InertClick =>
            /\ ~threw'
            /\ UNCHANGED <<given, blocks, onAction, view, threw, calls>>]_vars

C6_Witness ==
    /\ ~onAction
    /\ Len(clicks) = 2
    /\ ~clicks[1].hadCallback /\ ~clicks[2].hadCallback
    /\ clicks[1].kind = "actions" /\ clicks[2].kind = "section"
    /\ calls = <<>>
    /\ ~threw

----------------------------------------------------------------------------
(* Properties of repeated renders (SpecIdem) *)

\* C8: rendering is deterministic and idempotent: whenever the block
\* sequence and the callback are those of an earlier render, also after
\* renders of other sequences in between, the output is the same.
C8_SameInputSameOutput ==
    (/\ memo # <<>>
     /\ given = memo[1].given
     /\ onAction = memo[1].onAction) =>
        (view = memo[1].view /\ threw = memo[1].threw)

C8_Witness ==
    /\ memo # <<>>
    /\ memo[1].others
    /\ given = memo[1].given
    /\ onAction = memo[1].onAction
    /\ Len(given) = 2
    /\ given[1].type = "timeline" /\ given[2].type = "section"
    /\ view = memo[1].view

----------------------------------------------------------------------------
(* Properties of the emphasis substitution (SpecText) *)

\* The bodies of the pieces of one kind, in order
BodiesOf(kind) ==
    LET picked == SelectSeq(segs, LAMBDA g : g.kind = kind)
    IN  [i \in 1..Len(picked) |-> picked[i].body]

First(html, tag, from) ==
    IF \E i \in from..Len(html) : html[i] = tag
    THEN CHOOSE i \in from..Len(html) :
            html[i] = tag /\ \A k \in from..(i - 1) : html[k] # tag
    ELSE 0

\* What the html holds between each open tag and the close tag after it
RECURSIVE MarkedSpans(_, _, _, _)
MarkedSpans(html, open, close, from) ==
    LET i == First(html, open, from)
        j == IF i = 0 THEN 0 ELSE First(html, close, i + 1)
    IN  IF i = 0 \/ j = 0 THEN <<>>
        ELSE <<SubSeq(html, i + 1, j - 1)>> \o MarkedSpans(html, open, close, j + 1)

Count(html, tag) == Cardinality({i \in 1..Len(html) : html[i] = tag})

SpansMarkedExactly ==
    LET html == view[1].body[1].html
    IN  /\ MarkedSpans(html, StrongOpen, StrongClose, 1) = BodiesOf("bold")
        /\ MarkedSpans(html, EmOpen, EmClose, 1) = BodiesOf("italic")
        /\ MarkedSpans(html, CodeOpen, CodeClose, 1) = BodiesOf("code")
        /\ Count(html, StrongOpen) = Count(html, StrongClose)
        /\ Count(html, EmOpen) = Count(html, EmClose)
        /\ Count(html, CodeOpen) = Count(html, CodeClose)
        /\ \A i \in 1..Len(html) : html[i] \notin Delimiters

Chars(body) == {body[k] : k \in 1..Len(body)}

\* The text outside the spans holds no delimiter character
SpansAreTheOnlyDelimiters ==
    \A i \in 1..Len(segs) :
        segs[i].kind = "plain" => Chars(segs[i].body) \cap Delimiters = {}

LineStarts(text) ==
    {p \in 1..Len(text) : p = 1 \/ text[p - 1] \in LineTerminators}

\* The lines of text that begin with '> ' and go on after it
QuoteLineStarts(text) ==
    {p \in LineStarts(text) :
        /\ p + 2 <= Len(text)
        /\ text[p] = ">" /\ text[p + 1] = " "
        /\ text[p + 2] \notin LineTerminators}

\* The characters of a piece of text or html that are neither markup nor
\* emphasis delimiters
Bare(cs) == SelectSeq(cs, LAMBDA c : c \notin Tags \cup Delimiters)

\* C11: in a mrkdwn Section text, every line beginning with '> ' is
\* rendered as a blockquote holding the remainder of that line, and there
\* are no other blockquotes.
C11_QuoteLinesAreBlockquotes ==
    LET text   == given[1].text.text
        html   == view[1].body[1].html
        quotes == MarkedSpans(html, QuoteOpen, QuoteClose, 1)
    IN  /\ Len(quotes) = Cardinality(QuoteLineStarts(text))
        /\ \A p \in QuoteLineStarts(text) :
              \E k \in 1..Len(quotes) :
                  Bare(quotes[k]) = Bare(SubSeq(text, p + 2, GreedyEnd(text, p + 2)))

\* The delimiter and the markup of each emphasis rule
Rules ==
    {[d |-> "*", open |-> StrongOpen, close |-> StrongClose],
     [d |-> "_", open |-> EmOpen, close |-> EmClose],
     [d |-> Backtick, open |-> CodeOpen, close |-> CodeClose]}

\* The spans a rule marked in html, without the other rules' markup
BareSpans(html, rule) ==
    LET spans == MarkedSpans(html, rule.open, rule.close, 1)
    IN  [k \in 1..Len(spans) |-> Bare(spans[k])]

\* The delimiters d of text with no second d on their line to pair with
Lone(text, d) ==
    {p \in 1..Len(text) :
        /\ text[p] = d
        /\ ~\E q \in 1..Len(text) :
              /\ text[q] = d
              /\ q >= p + 2 \/ p >= q + 2
              /\ \A k \in 1..Len(text) :
                    (p < k /\ k < q) \/ (q < k /\ k < p) =>
                        text[k] \notin LineTerminators}

\* html is what the chain makes of text, alone what the one rule makes of it
RuleIndependent(text, html, alone, rule) ==
    /\ BareSpans(html, rule) = BareSpans(alone, rule)
    /\ Count(html, rule.open) = Count(alone, rule.open)
    /\ Count(html, rule.close) = Count(html, rule.open)
    /\ Count(html, rule.d) = Count(alone, rule.d)
    /\ Count(html, rule.d) >= Cardinality(Lone(text, rule.d))
    /\ 2 * Count(html, rule.open) <= Count(text, rule.d) - Cardinality(Lone(text, rule.d))

\* No blockquote marker in text for the fourth replace to act on
NoQuoteMarker(text) == \A p \in 1..Len(text) : ~QuoteMatchesAt(text, p)

\* C12: the emphasis rules bold, italic and code apply independently of one
\* another in a Section mrkdwn text: each rule marks the spans it marks
\* when it is the only rule applied, and a delimiter without a partner
\* stays in the output as a literal character and produces no markup.
C12_RulesApplyIndependently ==
    NoQuoteMarker(given[1].text.text) =>
        \A rule \in Rules :
            RuleIndependent(given[1].text.text, view[1].body[1].html,
                            ReplaceDelimited(given[1].text.text, 1, rule.d,
                                             rule.open, rule.close),
                            rule)

C12_Witness ==
    /\ segs = <<[kind |-> "plain", body |-> <<"_">>],
                [kind |-> "bold", body |-> <<"x", "y">>],
                [kind |-> "italic", body |-> <<"x">>]>>
    /\ given[1].text.text = <<"_", "*", "x", "y", "*", "_", "x", "_">>
    /\ view[1].body[1].html =
          <<EmOpen, StrongOpen, "x", "y", StrongClose, EmClose, "x", "_">>

----------------------------------------------------------------------------
(* Properties of the kinds of TextObject (SpecKinds) *)

\* The spans between open and close in html, without other markup
SpansBetween(html, open, close) ==
    LET spans == MarkedSpans(html, open, close, 1)
    IN  [k \in 1..Len(spans) |-> Bare(spans[k])]

\* sec: the html of a Section text; ctx: the html of the Context element
SameMarkedSpans(sec, ctx) ==
    /\ SpansBetween(ctx, ContextStrongOpen, StrongClose)
          = SpansBetween(sec, StrongOpen, StrongClose)
    /\ SpansBetween(ctx, EmOpen, EmClose) = SpansBetween(sec, EmOpen, EmClose)
    /\ SpansBetween(ctx, CodeOpen, CodeClose) = SpansBetween(sec, CodeOpen, CodeClose)
    /\ SpansBetween(ctx, QuoteOpen, QuoteClose) = SpansBetween(sec, QuoteOpen, QuoteClose)
    /\ VisibleText(ctx) = VisibleText(sec)

\* C13: a mrkdwn TextObject gets the same substitution (bold, italic, code,
\* blockquote) as an element of a Context block as it gets as the text of a
\* Section block: the same spans are marked.
C13_ContextMarksWhatSectionMarks ==
    given[1].text.type = "mrkdwn" =>
        SameMarkedSpans(view[1].body[1].html, view[2].children[1].html)

\* C20: a plain_text TextObject is displayed with exactly its stored text,
\* as a Section text, as a Section field and as a Context element: no
\* substitution is made, and every *, _, backtick and '>' stays as it is.
C20_PlainTextShownAsStored ==
    given[1].text.type = "plain_text" =>
        /\ ~threw
        /\ view[1].body[1] = [el |-> "p", chars |-> given[1].text.text]
        /\ view[1].fields[1] = [el |-> "p", chars |-> given[1].fields[1].text]
        /\ view[2].children[1] = [el |-> "span", chars |-> given[2].elements[1].text]
        /\ blocks = given

C20_Witness ==
    /\ given[1].text = PlainText(<<"*", "x", "*", ">", " ">>)
    /\ given[1].fields[1] = given[1].text
    /\ given[2].elements[1] = given[1].text
    /\ view[1].body[1].chars = <<"*", "x", "*", ">", " ">>
    /\ view[1].fields[1].chars = <<"*", "x", "*", ">", " ">>
    /\ view[2].children[1].chars = <<"*", "x", "*", ">", " ">>

----------------------------------------------------------------------------
(* Properties of a Section's image accessory (SpecClick) *)

\* The elements a child's view is made of
Shown(v) ==
    UNION {{v[f][k] : k \in 1..Len(v[f])} :
              f \in DOMAIN v \cap {"body", "fields", "buttons", "children"}}

ImagesShown(v) == {e \in Shown(v) : Has(e, "el") /\ e.el = "img"}

HasImageAccessory(b) ==
    b.type = "section" /\ Has(b, "accessory") /\ b.accessory.type = "image"

\* C14: a Section block whose accessory is an image shows that image, and
\* no click on the section invokes the callback.
C14_ImageAccessoryShownInert ==
    /\ \A i \in 1..Len(given) :
          HasImageAccessory(given[i]) =>
              /\ ~threw
              /\ \E e \in ImagesShown(view[i]) : e.src = given[i].accessory.image_url
    /\ \A k \in 1..Len(clicks) :
          ~(clicks[k].kind = "section" /\ clicks[k].element.type = "image")

----------------------------------------------------------------------------
(* Properties of the callback's invocations (SpecClick) *)

\* A step in which the user clicks a button that is on show
ClickStep ==
    /\ Len(clicks') = Len(clicks) + 1
    /\ UNCHANGED <<given, blocks, onAction, view>>

\* C18: a render invokes the callback zero times; the callback is invoked
\* only by a click's handler, which makes one invocation and has returned
\* from it before another begins.
C18_CallbackOnlyOnClick ==
    [][\/ calls' = calls
       \/ /\ ClickStep
          /\ clicks'[Len(clicks')].hadCallback
          /\ Len(calls') = Len(calls) + 1
          /\ SubSeq(calls', 1, Len(calls)) = calls]_vars

C18_Witness ==
    /\ onAction
    /\ Len(view) = 2
    /\ view[1].el = "section" /\ Len(view[1].buttons) = 1
    /\ view[2].el = "actions" /\ Len(view[2].buttons) = 2
    /\ Len(clicks) = 1 /\ clicks[1].kind = "actions"
    /\ Len(calls) = 1

----------------------------------------------------------------------------
(* Properties of ChatInterface (SpecChat) *)

IsLoadingPlaceholder(m) == Has(m, "isLoading") /\ m.isLoading

ShowsPlaceholder == \E i \in 1..Len(messages) : IsLoadingPlaceholder(messages[i])

\* The step of handleSendMessage up to its await
SubmitStep == ~isLoading /\ isLoading'

\* The step in which the analysis with placeholder id has answered
SettleStep(id) ==
    [loadingId |-> id] \in analyses /\ [loadingId |-> id] \notin analyses'

\* C15: a submission of non-empty content appends the user message and one
\* loading placeholder after it; when the analysis call has resolved or
\* rejected, no placeholder with its id is left, one system message that is
\* not loading has been appended and isLoading is false again; and, the
\* call answering in the end, no loading placeholder stays in the list
\* forever.
C15_PlaceholderIsReplacedInTheEnd ==
    /\ [][SubmitStep =>
            /\ Len(messages') = Len(messages) + 2
            /\ SubSeq(messages', 1, Len(messages)) = messages
            /\ messages'[Len(messages') - 1].type \in {"user-text", "user-article"}
            /\ messages'[Len(messages') - 1].content # <<>>
            /\ ~Has(messages'[Len(messages') - 1], "isLoading")
            /\ IsLoadingPlaceholder(messages'[Len(messages')])
            /\ [loadingId |-> messages'[Len(messages')].id] \in analyses']_vars
    /\ [][\A id \in GeneratedIds : SettleStep(id) =>
            /\ \A i \in 1..Len(messages') :
                  ~(IsLoadingPlaceholder(messages'[i]) /\ messages'[i].id = id)
            /\ Len(messages') = Len(SelectSeq(messages, LAMBDA m : m.id # id)) + 1
            /\ messages'[Len(messages')].type = "system"
            /\ ~Has(messages'[Len(messages')], "isLoading")
            /\ ~isLoading']_vars
    /\ (ShowsPlaceholder ~> ~ShowsPlaceholder)
    /\ (isLoading ~> ~isLoading)

C15_Witness ==
    /\ Len(messages) = 2
    /\ messages[1].type = "user-text" /\ messages[1].content = <<"q">>
    /\ messages[2].type = "system" /\ messages[2].content = FoundText(1)
    /\ ~ShowsPlaceholder
    /\ ~isLoading
    /\ analyses = {}

\* C16: whatever refreshes of the trend messages and other operations have
\* taken place, no two trend messages of the list share an id: there is at
\* most one per thread identifier.
C16_OneTrendMessagePerThread ==
    \A i, j \in 1..Len(messages) :
        (i # j /\ messages[i].type = "trend" /\ messages[j].type = "trend")
            => messages[i].id # messages[j].id

\* The messages of the list that carry another id than id, in order.  A
\* ChatMessage is known by its id: the code tells the placeholder from the
\* other messages by m.id !== loadingMessage.id.
OthersThan(id) == SelectSeq(messages, LAMBDA m : m.id # id)

C19_SettlingEditsNoMessage ==
    [][\A id \in GeneratedIds :
          SettleStep(id) =>
              /\ Len(messages') = Len(OthersThan(id)) + 1
              /\ \A i \in 1..Len(OthersThan(id)) :
                    /\ messages'[i].id = OthersThan(id)[i].id
                    /\ messages'[i].type = OthersThan(id)[i].type
                    /\ messages'[i].content = OthersThan(id)[i].content
                    /\ messages'[i] = OthersThan(id)[i]
              /\ \A i \in 1..Len(messages') : ~Has(messages'[i], "isLoading")]_vars

C19_Witness ==
    /\ Len(messages) = 4
    /\ messages[1].type = "trend" /\ messages[1].id = "trend-t2"
    /\ messages[2].type = "trend" /\ messages[2].id = "trend-t1"
    /\ messages[3].type = "user-text"
    /\ messages[4].type = "system" /\ Has(messages[4], "threads")
    /\ messages[3].id # messages[4].id
    /\ ~isLoading

----------------------------------------------------------------------------
(* Markers and connectors of the Timeline renderer (SpecTimeline) *)

Connectors(items) == {i \in 1..Len(items) : items[i].connector}

Max(a, b) == IF a >= b THEN a ELSE b

\* C21: a Timeline block with n events is rendered as n event markers and
\* max(n - 1, 0) connectors; a connector follows every event but the last
\* in sorted order, and the empty timeline shows no marker and no connector.
C21_OneConnectorBetweenNeighbours ==
    LET n == Len(given[1].events)
        shown == view[1].items
    IN  /\ view[1].el = "timeline"
        /\ Len(shown) = n
        /\ Cardinality(Connectors(shown)) = Max(n - 1, 0)
        /\ Connectors(shown) = 1..(n - 1)
        /\ n = 0 => shown = <<>>

C21_Witness ==
    /\ Len(given[1].events) = 3
    /\ given[1].events[1].year > given[1].events[3].year
    /\ Len(view[1].items) = 3
    /\ view[1].items[1].connector /\ view[1].items[2].connector
    /\ ~view[1].items[3].connector

----------------------------------------------------------------------------
(* The two copies of the Section, Context and Timeline renderers (SpecPage) *)

\* An html token without its class attribute
Unstyled(token) ==
    CASE token \in {CodeOpen, OlderCodeOpen} -> "<code>"
      [] token \in {QuoteOpen, OlderQuoteOpen} -> "<blockquote>"
      [] token \in {StrongOpen, ContextStrongOpen, OlderContextStrongOpen} -> "<strong>"
      [] OTHER -> token

UnstyledText(v) ==
    IF Has(v, "html")
    THEN [v EXCEPT !.html = [k \in 1..Len(v.html) |-> Unstyled(v.html[k])]]
    ELSE v

UnstyledAll(vs) == [k \in 1..Len(vs) |-> UnstyledText(vs[k])]

\* A rendered element without the classes of the markup in its texts
UnstyledView(v) ==
    CASE v.el = "section" ->
            [v EXCEPT !.body = UnstyledAll(@), !.fields = UnstyledAll(@)]
      [] v.el = "context" -> [v EXCEPT !.children = UnstyledAll(@)]
      [] OTHER -> v

HasTwoCopies(b) == b.type \in {"section", "context", "timeline"}

OlderCopy(b, cb) ==
    CASE b.type = "section" -> SectionBlockRendererOlder(b, cb)
      [] b.type = "context" -> ContextBlockRendererOlder(b)
      [] b.type = "timeline" -> TimelineBlockRendererOlder(b)

\* older: what the older copy makes of the block that was rendered as v
SameButStyle(older, v, after) ==
    /\ ~older.threw /\ ~threw
    /\ older.input = after
    /\ UnstyledView(older.view) = UnstyledView(v)

OlderClick(element, cb, before, after) ==
    \E h \in {handleAccessoryClickOlder(element, cb, before)} :
        /\ h.calls = after
        /\ ~h.threw

\* C22: the two copies of the Section, Context and Timeline renderers agree
\* on every block and callback: the older copy builds the same structure,
\* the same substituted text and the same event order as the newer one, up
\* to the classes of the markup, leaves the block as it is, and a click on
\* the accessory button makes the same callback invocation.
C22_CopiesDifferOnlyInStyle ==
    /\ [](\A i \in 1..Len(given) :
             HasTwoCopies(given[i]) =>
                 SameButStyle(OlderCopy(given[i], onAction), view[i], blocks[i]))
    /\ [][ClickStep /\ view[1].el = "section" =>
             OlderClick(blocks[1], view[1].buttons[1].onAction, calls, calls')]_vars

C22_Witness ==
    /\ given = <<SectionQuoted>>
    /\ view[1].body[1].html # SectionBlockRendererOlder(given[1], onAction).view.body[1].html
    /\ Len(clicks) = 2 /\ Len(calls) = 1

----------------------------------------------------------------------------
(* The style of a button (SpecPage) *)

\* The button element that button j of child i was rendered from
ButtonOf(i, j) ==
    IF view[i].el = "section" THEN blocks[i].accessory ELSE blocks[i].elements[j]

\* The accent the style field asks for
Accent(style) ==
    CASE style = "primary" -> "primary"
      [] style = "danger" -> "danger"
      [] OTHER -> "secondary"

\* C23: the style of a button on show is a function of its style field
\* alone, the same in an Actions block and as the accessory of a Section:
\* primary for 'primary', destructive for 'danger', and the neutral
\* (secondary) one when the field is unset or has any other value.
C23_ButtonStyleFollowsStyleField ==
    \A i \in 1..Len(view) :
        Has(view[i], "buttons") =>
            \A j \in 1..Len(view[i].buttons) :
                view[i].buttons[j].style = Accent(Get(ButtonOf(i, j), "style"))

C23_Witness ==
    /\ given = <<ActionsOutline>>
    /\ ~Has(blocks[1].elements[1], "style")
    /\ blocks[1].elements[2].style = "outline"
    /\ view[1].buttons[1].style = "secondary"
    /\ view[1].buttons[2].style = "secondary"

----------------------------------------------------------------------------
(* One analysis at a time (SpecSend) *)

Placeholders(ms) == {i \in 1..Len(ms) : IsLoadingPlaceholder(ms[i])}

UserMessages(ms) == SelectSeq(ms, LAMBDA m : m.type \in {"user-text", "user-article"})

\* C24: the message list never holds more than one loading placeholder and
\* never more than one analysis call is waiting for its answer; a user
\* message is added only while isLoading is false, and never one whose
\* trimmed content is empty.
C24_OneAnalysisAtATime ==
    /\ [](/\ Cardinality(Placeholders(messages)) <= 1
          /\ Cardinality(analyses) <= 1
          /\ analyses # {} => isLoading)
    /\ [][Len(UserMessages(messages')) > Len(UserMessages(messages)) =>
            /\ ~isLoading
            /\ \A i \in 1..Len(messages') :
                  messages'[i].type \in {"user-text", "user-article"}
                      => messages'[i].content # <<>>]_vars

C24_Witness ==
    /\ Len(messages) = 4
    /\ messages[2].type = "system" /\ ~IsLoadingPlaceholder(messages[2])
    /\ messages[3].type = "user-article"
    /\ Placeholders(messages) = {4}
    /\ isLoading /\ Cardinality(analyses) = 1

----------------------------------------------------------------------------
(* The order of the message list (SpecChat) *)

\* C25: whatever the order of submissions, answers, refreshes of the trends
\* and Clear Chat, every message of type 'trend' stands before every
\* message of another type.
C25_TrendMessagesComeFirst ==
    \A i \in 1..Len(messages), j \in 1..Len(messages) :
        i < j /\ messages[j].type = "trend" => messages[i].type = "trend"

C25_Witness ==
    /\ Len(messages) = 4
    /\ messages[1].type = "trend" /\ messages[2].type = "trend"
    /\ messages[3].type = "user-text"
    /\ IsLoadingPlaceholder(messages[4])
    /\ lastTrendUpdate = "11:00"

----------------------------------------------------------------------------
(* Clear Chat (SpecChat) *)

\* A step of Clear Chat that takes something out of the list
ClearStep ==
    /\ Len(messages') < Len(messages)
    /\ analyses' = analyses
    /\ fetches' = fetches

TrendsOf(ms) == SelectSeq(ms, LAMBDA m : m.type = "trend")

\* The analysis with placeholder id is under way and its placeholder has
\* been cleared away
ClearedInFlight(id) ==
    /\ [loadingId |-> id] \in analyses
    /\ \A i \in 1..Len(messages) : ~IsLoadingPlaceholder(messages[i])

\* C26: Clear Chat takes out every message that is no trend message, a
\* pending loading placeholder included, and leaves the trend messages as
\* they are and in their order; an analysis that answers after Clear Chat
\* ran still appends exactly one system message, which is not loading, and
\* changes nothing else of the list.
C26_ClearChatKeepsTrendsOnly ==
    /\ [][ClearStep =>
            /\ messages' = TrendsOf(messages)
            /\ Placeholders(messages') = {}]_vars
    /\ [][\A id \in GeneratedIds : ClearedInFlight(id) /\ SettleStep(id) =>
            /\ Len(messages') = Len(messages) + 1
            /\ SubSeq(messages', 1, Len(messages)) = messages
            /\ messages'[Len(messages')].type = "system"
            /\ ~Has(messages'[Len(messages')], "isLoading")
            /\ ~isLoading']_vars

C26_Witness ==
    /\ Len(messages) = 2
    /\ messages[1].id = "trend-t2" /\ messages[2].id = "trend-t1"
    /\ ClearedInFlight("z81x0qm")
    /\ isLoading

----------------------------------------------------------------------------
(* The refresh of the trend messages (SpecRefresh) *)

\* A step in which a fetchTrendMessages call ends; answered' tells how
FetchEnds == fetches' < fetches

ShouldReplace(answer) ==
    answer.resolved /\ answer.success /\ Len(answer.threads) > 0

\* C27: a fetch of the trends that ends replaces the trend messages, all of
\* them, by those of the response and sets lastTrendUpdate only if the
\* response is successful and has at least one thread; if the response is
\* unsuccessful or has no thread, or the request failed, the message list
\* and lastTrendUpdate stay as they are.
C27_RefreshReplacesOnlyOnThreads ==
    [][FetchEnds =>
         IF ShouldReplace(answered'[1])
         THEN /\ TrendsOf(messages') = trendMessages(answered'[1].threads)
              /\ withoutTrends(messages') = withoutTrends(messages)
              /\ lastTrendUpdate' \in GeneratedAt
         ELSE /\ messages' = messages
              /\ lastTrendUpdate' = lastTrendUpdate]_vars

C27_Witness ==
    /\ answered = <<[resolved |-> TRUE, success |-> TRUE, threads |-> <<>>]>>
    /\ Len(messages) = 3
    /\ messages[1].id = "trend-t1" /\ messages[2].id = "trend-t2"
    /\ messages[3].type = "system"
    /\ lastTrendUpdate = "10:00"
    /\ fetches = 0

----------------------------------------------------------------------------
(* The flag isLoadingTrends (SpecChat) *)

\* C28: isLoadingTrends is true exactly when at least one call of
\* fetchTrendMessages is waiting for its response, also when the calls made
\* by the mount, Refresh Trends, Purge Queue, Run Watch and Watch Cached
\* overlap.
C28_LoadingTrendsIffFetching == isLoadingTrends <=> fetches > 0

----------------------------------------------------------------------------
(* The fetch of ResultsPanel (SpecResults) *)

PanelFetchStarts == resultsPanel'.pending > resultsPanel.pending
PanelFetchEnds == resultsPanel'.pending < resultsPanel.pending

\* C29: a fetch of ResultsPanel that fails, the request being rejected or
\* its response having success false, sets an error that is not null and
\* leaves threads and lastUpdated as they are; one that succeeds puts the
\* threads and generated_at of the response in their place and leaves the
\* error null; the start of a fetch clears the error; and loading is false
\* after every fetch.
C29_FetchOutcomes ==
    /\ [][PanelFetchStarts => resultsPanel'.error = Null]_vars
    /\ [][PanelFetchEnds =>
            /\ ~resultsPanel'.loading
            /\ IF answered'[1].resolved /\ answered'[1].response.success
               THEN /\ resultsPanel'.threads = answered'[1].response.threads
                    /\ resultsPanel'.lastUpdated = answered'[1].response.generated_at
                    /\ resultsPanel'.error = Null
               ELSE /\ resultsPanel'.error # Null
                    /\ resultsPanel'.threads = resultsPanel.threads
                    /\ resultsPanel'.lastUpdated = resultsPanel.lastUpdated]_vars

C29_Witness ==
    /\ answered = <<Rejected>>
    /\ resultsPanel.error = ""
    /\ Len(resultsPanel.threads) = 2
    /\ resultsPanel.lastUpdated = "11:00"
    /\ ~resultsPanel.loading

----------------------------------------------------------------------------
(* The force-refresh box of TrendsDemo (SpecDemo) *)

\* C30: handleTriggerDemo calls triggerTrendsDemo with force_refresh false
\* whenever the force-refresh box is not ticked, and with true only when it
\* is ticked.
C30_ForceRefreshFollowsTheBox ==
    trendsDemo.sent # <<>> =>
        trendsDemo.sent[1].force_refresh = trendsDemo.sent[1].box

====
